---- MODULE Spec2Model ----
(***************************************************************************)
(* Model of extract_house_sales.py: extract_house_sales_info, save_to_file *)
(* and main.                                                               *)
(*                                                                         *)
(* Text is a sequence of tokens.  A token is a word of the Chinese text    *)
(* (written in pinyin), a digit, a dot, a blank " " or a path component,   *)
(* so that substring tests, replace, strip and endswith are computed on    *)
(* the text and not assumed.                                               *)
(* Areas are integers counting hundredths of a square metre.               *)
(***************************************************************************)
EXTENDS Integers, Sequences, FiniteSets, TLC

VARIABLES
    pc,            \* position of the run inside main / extract / save
    args,          \* argparse namespace: [html_file, output]
    input_exists,  \* os.path.exists(args.html_file)
    doc,           \* the document held by the input file
    handles,       \* file handles that are open now
    html_content,  \* what f.read() returned
    data,          \* return value of extract_house_sales_info
    error,         \* class of the exception caught last ("none" if none)
    output_file,   \* main's output_file
    opened,        \* sequence of [path, format] opened for writing
    written,       \* set of [path, format] completely written
    save_called,   \* save_to_file has been entered
    exit_code      \* process exit status (-1 while running)

vars == << pc, args, input_exists, doc, handles, html_content, data, error,
           output_file, opened, written, save_called, exit_code >>

----------------------------------------------------------------------------
(* Bounds of the model *)

MaxSiblings == 4

MaxRows == 2

----------------------------------------------------------------------------
(* Literals of the program *)

\* '项目名称'
XiangMuMingCheng == << "XiangMu", "MingCheng" >>

\* '房屋坐落'
FangWuZuoLuo == << "FangWu", "ZuoLuo" >>

\* '销售面积'
XiaoShouMianJi == << "XiaoShou", "MianJi" >>

\* '销售许可证证载用途'
XiaoShouXuKeZhengZhengZaiYongTu == << "XiaoShou", "XuKeZheng", "ZhengZai", "YongTu" >>

\* '许可证号'
XuKeZhengHao == << "XuKeZheng", "Hao" >>

\* '商品房销售许可证信息'
ShangPinFangXiaoShouXuKeZhengXinXi == << "ShangPinFang", "XiaoShou", "XuKeZheng", "XinXi" >>

\* '平方米'
PingFangMi == << "PingFang", "Mi" >>

\* '已售'
YiShou == << "YiShou" >>

\* '是'
Shi == << "Shi" >>

\* the number of cells a row needs: len(cells) >= 5
MinCells == 5

\* return None
None == [none |-> TRUE]

IsNone(d) == "none" \in DOMAIN d

\* {} : a dict with no key
EmptyDict == [k \in {} |-> << >>]

\* d[k] = v
Put(d, k, v) == [x \in (DOMAIN d) \cup {k} |-> IF x = k THEN v ELSE d[x]]

----------------------------------------------------------------------------
(* str operations *)

\* needle in hay
Contains(needle, hay) ==
    \E i \in 1..(Len(hay) - Len(needle) + 1) :
        SubSeq(hay, i, i + Len(needle) - 1) = needle

RECURSIVE LStrip(_)
LStrip(s) == IF s # << >> /\ Head(s) = " " THEN LStrip(Tail(s)) ELSE s

RECURSIVE RStrip(_)
RStrip(s) ==
    IF s # << >> /\ s[Len(s)] = " " THEN RStrip(SubSeq(s, 1, Len(s) - 1)) ELSE s

\* s.strip(), and get_text(strip=True) of an element with one text node
Strip(s) == RStrip(LStrip(s))

RECURSIVE Replace(_, _)
\* s.replace(old, ''): every non-overlapping occurrence, left to right
Replace(s, old) ==
    IF Len(s) < Len(old) THEN s
    ELSE IF SubSeq(s, 1, Len(old)) = old
         THEN Replace(SubSeq(s, Len(old) + 1, Len(s)), old)
         ELSE << Head(s) >> \o Replace(Tail(s), old)

\* s.endswith(suffix)
EndsWith(s, suffix) ==
    /\ Len(s) >= Len(suffix)
    /\ SubSeq(s, Len(s) - Len(suffix) + 1, Len(s)) = suffix

----------------------------------------------------------------------------
(* Basic information: lines 36-72 *)

\* label.find_next_sibling('span', class_=...content...): the index of the
\* first later sibling that is a content span, 0 when there is none
content_element(siblings, i) ==
    LET later == {j \in (i + 1)..Len(siblings) : siblings[j].kind = "content"}
    IN  IF later = {} THEN 0
        ELSE CHOOSE j \in later : \A k \in later : j <= k

FirstWriteWins(basic_info, label_text, content_text) ==
    LET put(k) == IF k \in DOMAIN basic_info THEN basic_info
                  ELSE Put(basic_info, k, content_text)
    IN  IF Contains(XiangMuMingCheng, label_text) THEN put("XiangMuMingCheng")
        ELSE IF Contains(FangWuZuoLuo, label_text) THEN put("FangWuZuoLuo")
        ELSE IF Contains(XiaoShouMianJi, label_text) THEN put("XiaoShouMianJi")
        ELSE IF Contains(XiaoShouXuKeZhengZhengZaiYongTu, label_text)
             THEN put("XiaoShouXuKeZhengZhengZaiYongTu")
        ELSE IF Contains(XuKeZhengHao, label_text) THEN put("XuKeZhengHao")
        ELSE basic_info

\* the if/elif chain of lines 50-59
AssignField(basic_info, label_text, content_text) ==
    IF Contains(XiangMuMingCheng, label_text)
    THEN Put(basic_info, "XiangMuMingCheng", content_text)
    ELSE IF Contains(FangWuZuoLuo, label_text)
    THEN Put(basic_info, "FangWuZuoLuo", content_text)
    ELSE IF Contains(XiaoShouMianJi, label_text)
    THEN Put(basic_info, "XiaoShouMianJi", content_text)
    ELSE IF Contains(XiaoShouXuKeZhengZhengZaiYongTu, label_text)
    THEN Put(basic_info, "XiaoShouXuKeZhengZhengZaiYongTu", content_text)
    ELSE IF Contains(XuKeZhengHao, label_text)
    THEN Put(basic_info, "XuKeZhengHao", content_text)
    ELSE basic_info

RECURSIVE LabelLoop(_, _, _)
\* for label in label_elements: lines 42-59, from sibling i on
LabelLoop(siblings, i, basic_info) ==
    IF i > Len(siblings) THEN basic_info
    ELSE IF siblings[i].kind # "label" THEN LabelLoop(siblings, i + 1, basic_info)
    ELSE LET label_text == Strip(siblings[i].text)
             c == content_element(siblings, i)
         IN  IF c # 0
             THEN LabelLoop(siblings, i + 1,
                      AssignField(basic_info, label_text, Strip(siblings[c].text)))
             ELSE LabelLoop(siblings, i + 1, basic_info)

TitleAlways(basic_info, title) ==
    IF title.present
    THEN LET title_text == Strip(title.text)
         IN  IF Contains(ShangPinFangXiaoShouXuKeZhengXinXi, title_text)
             THEN LET project_name ==
                          Strip(Replace(title_text, ShangPinFangXiaoShouXuKeZhengXinXi))
                  IN  IF project_name # << >>
                      THEN Put(basic_info, "XiangMuMingCheng", project_name)
                      ELSE basic_info
             ELSE basic_info
    ELSE basic_info

\* lines 62-72
TitleFallback(basic_info, title) ==
    IF "XiangMuMingCheng" \notin DOMAIN basic_info
    THEN IF title.present
         THEN LET title_text == Strip(title.text)
              IN  IF Contains(ShangPinFangXiaoShouXuKeZhengXinXi, title_text)
                  THEN LET project_name ==
                               Strip(Replace(title_text, ShangPinFangXiaoShouXuKeZhengXinXi))
                       IN  IF project_name # << >>
                           THEN Put(basic_info, "XiangMuMingCheng", project_name)
                           ELSE basic_info
                  ELSE basic_info
         ELSE basic_info
    ELSE basic_info

----------------------------------------------------------------------------
(* House details: lines 75-117 *)

\* the key that cell n of a row fills
CellKey(n) ==
    CASE n = 1 -> "FangJianHao"
      [] n = 2 -> "JianZhuMianJi"
      [] n = 3 -> "ShenBaoXiaoShouDanJia"
      [] n = 4 -> "ShiFouChuShou"
      [] n = 5 -> "ShiFouDiYa"

\* row.find_all('td', class_='el-table__cell')
Cells(row) == SelectSeq(row, LAMBDA td : td.cls)

\* lines 83-113: a key for each of the first five cells that holds a div.cell
HouseInfo(cells) ==
    [k \in {CellKey(n) : n \in {m \in 1..MinCells : cells[m].div}} |->
        Strip(cells[CHOOSE n \in 1..MinCells : CellKey(n) = k].text)]

\* d.get(k, default)
Get(d, k, default) == IF k \in DOMAIN d THEN d[k] ELSE default

KeepAlways(house_info) == TRUE

\* line 116: if house_info.get('房间号')
KeepRow(house_info) == Get(house_info, "FangJianHao", << >>) # << >>

RECURSIVE RowLoop(_, _, _)
\* for row in table_rows: lines 80-117, from row i on
RowLoop(table_rows, i, house_details) ==
    IF i > Len(table_rows) THEN house_details
    ELSE LET cells == Cells(table_rows[i])
         IN  IF Len(cells) >= MinCells
             THEN LET house_info == HouseInfo(cells)
                  IN  IF KeepRow(house_info)
                      THEN RowLoop(table_rows, i + 1, Append(house_details, house_info))
                      ELSE RowLoop(table_rows, i + 1, house_details)
             ELSE RowLoop(table_rows, i + 1, house_details)

----------------------------------------------------------------------------
(* Statistics: lines 119-151 *)

\* len([h for h in house_details if h.get(key) == value])
CountWhere(house_details, key, value) ==
    Cardinality({i \in 1..Len(house_details) :
                    Get(house_details[i], key, << >>) = value})

Digits == {"0", "1", "2", "3", "4", "5", "6", "7", "8", "9"}

DigitValue(d) ==
    CASE d = "0" -> 0 [] d = "1" -> 1 [] d = "2" -> 2 [] d = "3" -> 3
      [] d = "4" -> 4 [] d = "5" -> 5 [] d = "6" -> 6 [] d = "7" -> 7
      [] d = "8" -> 8 [] d = "9" -> 9

RECURSIVE IntOf(_)
\* the number a run of digits writes
IntOf(ds) ==
    IF ds = << >> THEN 0
    ELSE IntOf(SubSeq(ds, 1, Len(ds) - 1)) * 10 + DigitValue(ds[Len(ds)])

\* float(s) for unsigned decimal text: [ok |-> FALSE] stands for ValueError.
\* The value counts hundredths; digits after the second decimal are cut.
Float(s) ==
    LET t == Strip(s)
        dots == {i \in 1..Len(t) : t[i] = "."}
        dot == IF dots = {} THEN Len(t) + 1 ELSE CHOOSE i \in dots : TRUE
        whole == SubSeq(t, 1, dot - 1)
        frac == SubSeq(t, dot + 1, Len(t))
        frac2 == SubSeq(frac \o << "0", "0" >>, 1, 2)
    IN  IF /\ \A i \in 1..Len(t) : t[i] \in Digits \cup {"."}
           /\ Cardinality(dots) <= 1
           /\ Len(whole) + Len(frac) >= 1
        THEN [ok |-> TRUE, value |-> IntOf(whole) * 100 + IntOf(frac2)]
        ELSE [ok |-> FALSE, value |-> 0]

AreaValueUncaught(area_text) ==
    LET f == IF Contains(PingFangMi, area_text)
             THEN Float(Replace(area_text, PingFangMi))
             ELSE Float(area_text)
    IN  IF area_text # << >>
        THEN IF f.ok THEN [exc |-> "none", value |-> f.value]
             ELSE [exc |-> "ValueError", value |-> 0]
        ELSE [exc |-> "none", value |-> 0]

\* lines 127-137: what one house adds to total_area; exc is the exception
\* that leaves the loop body ("none": the ValueError is caught at line 136)
AreaValue(area_text) ==
    LET f == IF Contains(PingFangMi, area_text)
             THEN Float(Replace(area_text, PingFangMi))
             ELSE Float(area_text)
    IN  IF area_text # << >>
        THEN IF f.ok THEN [exc |-> "none", value |-> f.value]
             ELSE [exc |-> "none", value |-> 0]
        ELSE [exc |-> "none", value |-> 0]

RECURSIVE AreaLoop(_, _, _)
\* for house in house_details: lines 126-137, from house i on
AreaLoop(house_details, i, total_area) ==
    IF i > Len(house_details) THEN [exc |-> "none", value |-> total_area]
    ELSE LET a == AreaValue(Get(house_details[i], "JianZhuMianJi", << >>))
         IN  IF a.exc # "none" THEN [exc |-> a.exc, value |-> total_area]
             ELSE AreaLoop(house_details, i + 1, total_area + a.value)

Pad2(n) == IF n < 10 THEN << "0", ToString(n) >> ELSE << ToString(n) >>

\* f"{total_area:.2f}平方米"
FormatArea(total_area) ==
    << ToString(total_area \div 100), "." >> \o Pad2(total_area % 100) \o PingFangMi

UnsoldCounted(house_details, total_area, now) ==
    LET total_houses == Len(house_details)
        sold_houses == CountWhere(house_details, "ShiFouChuShou", YiShou)
        mortgaged_houses == CountWhere(house_details, "ShiFouDiYa", Shi)
    IN  [ZongFangWuShu |-> total_houses,
         YiShouFangWuShu |-> sold_houses,
         WeiShouFangWuShu |-> CountWhere(house_details, "ShiFouChuShou", << "WeiShou" >>),
         DiYaFangWuShu |-> mortgaged_houses,
         ZongMianJi |-> FormatArea(total_area),
         TiQuShiJian |-> now]

\* lines 120-122 and 143-150: the '统计信息' dict
Statistics(house_details, total_area, now) ==
    LET total_houses == Len(house_details)
        sold_houses == CountWhere(house_details, "ShiFouChuShou", YiShou)
        mortgaged_houses == CountWhere(house_details, "ShiFouDiYa", Shi)
    IN  [ZongFangWuShu |-> total_houses,
         YiShouFangWuShu |-> sold_houses,
         WeiShouFangWuShu |-> total_houses - sold_houses,
         DiYaFangWuShu |-> mortgaged_houses,
         ZongMianJi |-> FormatArea(total_area),
         TiQuShiJian |-> now]

\* lines 33-153: the body of the try block after the file is read.
\* exc is the exception that leaves it, value the dict it returns.
ExtractBody(soup, now) ==
    LET basic_info == TitleFallback(LabelLoop(soup.siblings, 1, EmptyDict), soup.title)
        house_details == RowLoop(soup.table_rows, 1, << >>)
        area == AreaLoop(house_details, 1, 0)
    IN  IF area.exc # "none" THEN [exc |-> area.exc, value |-> None]
        ELSE [exc |-> "none",
              value |-> [JiBenXinXi |-> basic_info,
                         FangWuXiangQing |-> house_details,
                         TongJiXinXi |-> Statistics(house_details, area.value, now)]]

----------------------------------------------------------------------------
(* Exceptions, handles, paths *)

CatchesOSErrorOnly(exc) == exc = "OSError"

\* line 155: except Exception
ExtractCatches(exc) == exc \in {"OSError", "UnicodeDecodeError", "ParserError",
                                "ValueError"}

\* line 208: except Exception
SaveCatches(exc) == exc \in {"OSError"}

HandleLeftOpen(hs, h) == hs

\* leaving a with block, normally or by an exception, closes its file
WithExit(hs, h) == hs \ {h}

TruthyWithUnits(d) == ~IsNone(d) /\ d.FangWuXiangQing # << >>

\* line 237: if data
Truthy(d) == ~IsNone(d) /\ DOMAIN d # {}

\* the tokens that are a file extension
Extensions == {".html", ".json", ".txt", ".csv", ".JSON", ".bak"}

\* os.path.splitext(path)[0]
SplitExtBase(path) ==
    IF Len(path) >= 2 /\ path[Len(path)] \in Extensions
    THEN SubSeq(path, 1, Len(path) - 1)
    ELSE path

\* lines 226-230
OutputFile(a) ==
    IF a.output # << >> THEN a.output
    ELSE SplitExtBase(a.html_file) \o << "_XiaoShouXinXi", ".json" >>

SaveTargetAsGiven(path) ==
    IF EndsWith(path, << ".txt" >>) THEN [path |-> path, format |-> "txt"]
    ELSE [path |-> path, format |-> "json"]

\* lines 170-204: the file save_to_file opens and the encoding it writes
SaveTarget(path) ==
    IF EndsWith(path, << ".json" >>) THEN [path |-> path, format |-> "json"]
    ELSE IF EndsWith(path, << ".txt" >>) THEN [path |-> path, format |-> "txt"]
    ELSE [path |-> path \o << ".json" >>, format |-> "json"]

\* datetime.now(), as formatted
Clock == {"T1", "T2"}

----------------------------------------------------------------------------
(* The run *)

\* an exception of class exc leaves the try block of extract_house_sales_info
ExtractRaise(exc) ==
    /\ error' = exc
    /\ IF ExtractCatches(exc)
       THEN /\ data' = None
            /\ pc' = "main_branch"
            /\ exit_code' = exit_code
       ELSE /\ data' = data
            /\ pc' = "crashed"
            /\ exit_code' = 1

\* an exception of class exc leaves the try block of save_to_file
SaveRaise(exc) ==
    /\ error' = exc
    /\ IF SaveCatches(exc)
       THEN /\ pc' = "main_return"
            /\ exit_code' = exit_code
       ELSE /\ pc' = "crashed"
            /\ exit_code' = 1

\* lines 221-232
MainCheckInput ==
    /\ pc = "main"
    /\ IF ~input_exists
       THEN /\ exit_code' = 1
            /\ pc' = "done"
            /\ output_file' = output_file
       ELSE /\ output_file' = OutputFile(args)
            /\ pc' = "extract_open"
            /\ exit_code' = exit_code
    /\ UNCHANGED << args, input_exists, doc, handles, html_content, data, error,
                    opened, written, save_called >>

\* line 29: open(html_file_path, 'r', encoding='utf-8')
ExtractOpen ==
    /\ pc = "extract_open"
    /\ \E ok \in BOOLEAN :
          IF ok
          THEN /\ handles' = handles \cup {"in"}
               /\ pc' = "extract_read"
               /\ UNCHANGED << data, error, exit_code >>
          ELSE /\ handles' = handles
               /\ ExtractRaise("OSError")
    /\ UNCHANGED << args, input_exists, doc, html_content, output_file, opened,
                    written, save_called >>

\* line 30: f.read()
ExtractRead ==
    /\ pc = "extract_read"
    /\ \E ok \in BOOLEAN :
          IF ok
          THEN /\ html_content' = doc
               /\ pc' = "extract_close"
               /\ UNCHANGED << handles, data, error, exit_code >>
          ELSE /\ html_content' = html_content
               /\ handles' = WithExit(handles, "in")
               /\ ExtractRaise("UnicodeDecodeError")
    /\ UNCHANGED << args, input_exists, doc, output_file, opened, written,
                    save_called >>

\* lines 29-30: the end of the with block
ExtractClose ==
    /\ pc = "extract_close"
    /\ handles' = WithExit(handles, "in")
    /\ pc' = "extract_body"
    /\ UNCHANGED << args, input_exists, doc, html_content, data, error,
                    output_file, opened, written, save_called, exit_code >>

\* lines 33-153
ExtractParse ==
    /\ pc = "extract_body"
    /\ \E parsed \in BOOLEAN, now \in Clock :
          IF parsed
          THEN LET r == ExtractBody(html_content, now)
               IN  IF r.exc = "none"
                   THEN /\ data' = r.value
                        /\ pc' = "main_branch"
                        /\ UNCHANGED << error, exit_code >>
                   ELSE ExtractRaise(r.exc)
          ELSE ExtractRaise("ParserError")
    /\ UNCHANGED << args, input_exists, doc, handles, html_content, output_file,
                    opened, written, save_called >>

\* lines 237-247
MainBranch ==
    /\ pc = "main_branch"
    /\ IF Truthy(data)
       THEN /\ save_called' = TRUE
            /\ pc' = "save_open"
            /\ exit_code' = exit_code
       ELSE /\ save_called' = save_called
            /\ exit_code' = 1
            /\ pc' = "done"
    /\ UNCHANGED << args, input_exists, doc, handles, html_content, data, error,
                    output_file, opened, written >>

\* lines 170-171, 173-174, 202-203: open(output_file, 'w', encoding='utf-8')
SaveOpen ==
    /\ pc = "save_open"
    /\ opened' = Append(opened, SaveTarget(output_file))
    /\ \E ok \in BOOLEAN :
          IF ok
          THEN /\ handles' = handles \cup {"out"}
               /\ pc' = "save_write"
               /\ UNCHANGED << error, exit_code >>
          ELSE /\ handles' = handles
               /\ SaveRaise("OSError")
    /\ UNCHANGED << args, input_exists, doc, html_content, data, output_file,
                    written, save_called >>

\* lines 172, 175-199, 204: json.dump or the f.write calls
SaveWrite ==
    /\ pc = "save_write"
    /\ \E ok \in BOOLEAN :
          IF ok
          THEN /\ pc' = "save_close"
               /\ UNCHANGED << handles, error, exit_code >>
          ELSE /\ handles' = WithExit(handles, "out")
               /\ SaveRaise("OSError")
    /\ UNCHANGED << args, input_exists, doc, html_content, data, output_file,
                    opened, written, save_called >>

\* the end of the with block, then line 206
SaveClose ==
    /\ pc = "save_close"
    /\ handles' = WithExit(handles, "out")
    /\ written' = written \cup {opened[Len(opened)]}
    /\ pc' = "main_return"
    /\ UNCHANGED << args, input_exists, doc, html_content, data, error,
                    output_file, opened, save_called, exit_code >>

\* main returns after line 244: the process ends with status 0
MainReturn ==
    /\ pc = "main_return"
    /\ exit_code' = 0
    /\ pc' = "done"
    /\ UNCHANGED << args, input_exists, doc, handles, html_content, data, error,
                    output_file, opened, written, save_called >>

----------------------------------------------------------------------------
(* Input documents and arguments *)

SeqsUpTo(S, n) == UNION {[1..k -> S] : k \in 0..n}

Label(text) == [kind |-> "label", text |-> text]

Content(text) == [kind |-> "content", text |-> text]

\* a sibling that is neither a label span nor a content span
OtherElement == [kind |-> "other", text |-> << >>]

\* '项目名称:'
LabelXiangMu == Label(XiangMuMingCheng \o << ":" >>)

\* ' 房屋坐落'
LabelFangWu == Label(<< " " >> \o FangWuZuoLuo)

\* '项目名称及房屋坐落'
LabelXiangMuFangWu == Label(XiangMuMingCheng \o << "Ji" >> \o FangWuZuoLuo)

\* '备注'
LabelBeiZhu == Label(<< "BeiZhu" >>)

ContentA == Content(<< "A", " " >>)

ContentBlank == Content(<< " " >>)

CoreElements ==
    {LabelXiangMu, LabelFangWu, LabelXiangMuFangWu, LabelBeiZhu,
     ContentA, ContentBlank, OtherElement}

AllElements ==
    CoreElements \cup
    {Label(XiaoShouMianJi), Label(XiaoShouXuKeZhengZhengZaiYongTu),
     Label(XuKeZhengHao \o << ":" >>)}

NoTitle == [present |-> FALSE, text |-> << >>]

Title(text) == [present |-> TRUE, text |-> text]

\* '阳光花园商品房销售许可证信息'
TitleYangGuang == Title(<< "YangGuangHuaYuan" >> \o ShangPinFangXiaoShouXuKeZhengXinXi)

Titles ==
    {NoTitle, TitleYangGuang,
     Title(ShangPinFangXiaoShouXuKeZhengXinXi),
     Title(<< "ShouYe" >>),
     Title(<< " ", "HaiHe", " " >> \o ShangPinFangXiaoShouXuKeZhengXinXi)}

Td(text) == [cls |-> TRUE, div |-> TRUE, text |-> text]

\* a data cell without the div.cell wrapper
TdNoDiv == [cls |-> TRUE, div |-> FALSE, text |-> << >>]

\* a td that does not carry the class el-table__cell
TdPlain(text) == [cls |-> FALSE, div |-> TRUE, text |-> text]

Room101 == Td(<< " ", "1", "0", "1" >>)

Price == Td(<< "9", "0", "0", "0" >>)

\* area cells, with the hundredths each is to add to the total area
AreaCells ==
    {[td |-> Td(<< "8", "9", ".", "5" >> \o PingFangMi), adds |-> 8950],
     [td |-> Td(<< "1", "2" >>), adds |-> 1200],
     [td |-> Td(<< "a", "b", "c" >>), adds |-> 0],
     [td |-> Td(PingFangMi), adds |-> 0],
     [td |-> TdNoDiv, adds |-> 0]}

StatusCells ==
    {<< Td(YiShou), Td(<< "Fou" >>) >>,
     << Td(<< "WeiShou" >>), Td(Shi) >>,
     << TdNoDiv, TdNoDiv >>}

Rows ==
    {<< Room101, a.td, Price >> \o st : a \in AreaCells, st \in StatusCells}
    \cup {<< id, Td(<< "1", "2" >>), Price, Td(YiShou), Td(Shi) >> :
             id \in {Td(<< " " >>), Td(<< >>), TdNoDiv}}
    \cup {<< Room101, Td(<< "1", "2" >>), Price, Td(YiShou) >>,
          << Room101, Td(<< "1", "2" >>), Price, Td(YiShou), TdPlain(Shi) >>,
          << TdPlain(<< "x" >>), Room101, Td(<< "1", "2" >>), Price, Td(YiShou), Td(Shi) >>,
          << Room101, Td(<< "1", "2" >>), Price, Td(YiShou), Td(Shi), Td(<< "x" >>) >>}

Doc(siblings, title, table_rows) ==
    [siblings |-> siblings, title |-> title, table_rows |-> table_rows]

\* one basic-info pair and two unit rows: one sold, one mortgaged
TwoUnitDoc ==
    Doc(<< LabelXiangMu, ContentA >>, NoTitle,
        << << Room101, Td(<< "8", "9", ".", "5" >> \o PingFangMi), Price,
              Td(YiShou), Td(<< "Fou" >>) >>,
           << Room101, Td(<< "a", "b", "c" >>), Price,
              Td(<< "WeiShou" >>), Td(Shi) >> >>)

EmptyDoc == Doc(<< >>, NoTitle, << >>)

RunDocs == {TwoUnitDoc, EmptyDoc, Doc(<< LabelFangWu >>, TitleYangGuang, << >>)}

HtmlFiles == {<< "page", ".html" >>, << "page" >>}

Outputs ==
    {<< >>, << "out", ".json" >>, << "report", ".txt" >>, << "out" >>,
     << "out", ".csv" >>, << "out", ".JSON" >>, << "a", ".json", ".bak" >>}

MaxShortSiblings == 2

----------------------------------------------------------------------------
(* Specifications *)

\* the run of main, from the parsed arguments on
Init ==
    /\ pc = "main"
    /\ args \in [html_file : HtmlFiles, output : Outputs]
    /\ input_exists \in BOOLEAN
    /\ doc \in RunDocs
    /\ handles = {}
    /\ html_content = None
    /\ data = None
    /\ error = "none"
    /\ output_file = << >>
    /\ opened = << >>
    /\ written = {}
    /\ save_called = FALSE
    /\ exit_code = -1

Next ==
    \/ MainCheckInput
    \/ ExtractOpen
    \/ ExtractRead
    \/ ExtractClose
    \/ ExtractParse
    \/ MainBranch
    \/ SaveOpen
    \/ SaveWrite
    \/ SaveClose
    \/ MainReturn

Spec == Init /\ [][Next]_vars

\* the documents the extraction is applied to
Documents ==
    {Doc(s, t, << >>) : s \in SeqsUpTo(CoreElements, MaxSiblings),
                        t \in {NoTitle, TitleYangGuang}}
    \cup {Doc(s, t, << >>) : s \in SeqsUpTo(AllElements, MaxShortSiblings), t \in Titles}
    \cup {Doc(<< >>, NoTitle, r) : r \in SeqsUpTo(Rows, MaxRows)}

\* extract_house_sales_info after the file is read and closed (line 33)
InitExtract ==
    /\ pc = "extract_body"
    /\ args = [html_file |-> << "page", ".html" >>, output |-> << >>]
    /\ input_exists = TRUE
    /\ doc \in Documents
    /\ handles = {}
    /\ html_content = doc
    /\ data = None
    /\ error = "none"
    /\ output_file = OutputFile(args)
    /\ opened = << >>
    /\ written = {}
    /\ save_called = FALSE
    /\ exit_code = -1

NextExtract == ExtractParse

SpecExtract == InitExtract /\ [][NextExtract]_vars

----------------------------------------------------------------------------
(* Properties *)

FieldKeys ==
    {"XiangMuMingCheng", "FangWuZuoLuo", "XiaoShouMianJi",
     "XiaoShouXuKeZhengZhengZaiYongTu", "XuKeZhengHao"}

\* the field name that is looked for in a label to fill key k
FieldNeedle(k) ==
    CASE k = "XiangMuMingCheng" -> XiangMuMingCheng
      [] k = "FangWuZuoLuo" -> FangWuZuoLuo
      [] k = "XiaoShouMianJi" -> XiaoShouMianJi
      [] k = "XiaoShouXuKeZhengZhengZaiYongTu" -> XiaoShouXuKeZhengZhengZaiYongTu
      [] k = "XuKeZhengHao" -> XuKeZhengHao

\* the place of key k in the order in which the names are tried
FieldRank(k) ==
    CASE k = "XiangMuMingCheng" -> 1
      [] k = "FangWuZuoLuo" -> 2
      [] k = "XiaoShouMianJi" -> 3
      [] k = "XiaoShouXuKeZhengZhengZaiYongTu" -> 4
      [] k = "XuKeZhengHao" -> 5

\* a row of the document that the result is to hold a unit for
RowQualifies(row) ==
    LET cells == SelectSeq(row, LAMBDA td : td.cls)
    IN  /\ Len(cells) >= 5
        /\ cells[1].div
        /\ Strip(cells[1].text) # << >>

\* the labels of the document that have a content element paired with them
PairedLabels ==
    {i \in 1..Len(doc.siblings) :
        doc.siblings[i].kind = "label" /\ content_element(doc.siblings, i) # 0}

\* the text of the content element paired with label i
PairedText(i) == Strip(doc.siblings[content_element(doc.siblings, i)].text)

LabelNames(i, k) == Contains(FieldNeedle(k), Strip(doc.siblings[i].text))

\* the paired labels whose text holds the name of key k
Naming(k) == {i \in PairedLabels : LabelNames(i, k)}

\* the paired labels for which k is the first name, in the order tried, held
FirstNaming(k) ==
    {i \in Naming(k) : \A j \in FieldKeys : LabelNames(i, j) => FieldRank(k) <= FieldRank(j)}

Last(S) == CHOOSE i \in S : \A j \in S : j <= i

\* the project name each title is to give when no label gives one
\* (<< >>: none)
ExpectedFromTitle(title) ==
    CASE title = TitleYangGuang -> << "YangGuangHuaYuan" >>
      [] title = Title(<< " ", "HaiHe", " " >> \o ShangPinFangXiaoShouXuKeZhengXinXi)
            -> << "HaiHe" >>
      [] OTHER -> << >>

Extracted == ~IsNone(data)

\* C1: the total unit count is the length of the returned unit list, unsold
\* plus sold is the total, and sold and mortgaged lie between 0 and the total
C1_StatisticsConsistent ==
    Extracted =>
        LET st == data.TongJiXinXi
            total == st.ZongFangWuShu
        IN  /\ total = Len(data.FangWuXiangQing)
            /\ st.WeiShouFangWuShu + st.YiShouFangWuShu = total
            /\ st.YiShouFangWuShu \in 0..total
            /\ st.DiYaFangWuShu \in 0..total

\* a row was filtered out and the remaining unit, neither sold nor unsold by
\* its text, is counted
C1_Witness ==
    /\ Extracted
    /\ Len(doc.table_rows) = 2
    /\ data.TongJiXinXi.ZongFangWuShu = 1
    /\ data.TongJiXinXi.WeiShouFangWuShu = 1
    /\ "ShiFouChuShou" \notin DOMAIN data.FangWuXiangQing[1]

\* C2: the returned units are, in order, the rows with at least 5 data cells
\* and a non-empty trimmed identifier; each holds exactly the fields whose
\* wrapper is present, and every identifier is non-empty
C2_RowsRetained ==
    Extracted =>
        LET kept == SelectSeq(doc.table_rows, RowQualifies)
            units == data.FangWuXiangQing
        IN  /\ Len(units) = Len(kept)
            /\ \A i \in 1..Len(units) :
                  LET cells == SelectSeq(kept[i], LAMBDA td : td.cls)
                  IN  /\ "FangJianHao" \in DOMAIN units[i]
                      /\ units[i]["FangJianHao"] # << >>
                      /\ \A n \in 1..5 :
                            IF cells[n].div
                            THEN /\ CellKey(n) \in DOMAIN units[i]
                                 /\ units[i][CellKey(n)] = Strip(cells[n].text)
                            ELSE CellKey(n) \notin DOMAIN units[i]

\* a row of 4 data cells and a row with a blank identifier are both dropped
C2_Witness ==
    /\ Extracted
    /\ \E i, j \in 1..Len(doc.table_rows) :
          /\ Len(SelectSeq(doc.table_rows[i], LAMBDA td : td.cls)) = 4
          /\ Len(doc.table_rows[j]) = 5
          /\ doc.table_rows[j][1] = Td(<< " " >>)
    /\ data.FangWuXiangQing = << >>

\* C3: a field comes from a label only when the label's immediate next
\* sibling is a content element, and then holds that element's text
C3_ImmediateSiblingOnly ==
    Extracted =>
        \A k \in DOMAIN data.JiBenXinXi :
            \/ /\ k = "XiangMuMingCheng"
               /\ ExpectedFromTitle(doc.title) # << >>
               /\ data.JiBenXinXi[k] = ExpectedFromTitle(doc.title)
            \/ \E i \in 1..(Len(doc.siblings) - 1) :
                  /\ doc.siblings[i].kind = "label"
                  /\ doc.siblings[i + 1].kind = "content"
                  /\ LabelNames(i, k)
                  /\ data.JiBenXinXi[k] = Strip(doc.siblings[i + 1].text)

\* C4 as stated: every paired label whose text holds a field's name counts
\* for that field, and the last of them gives the value
C4_AnyNameLastWins ==
    Extracted =>
        \A k \in FieldKeys :
            IF Naming(k) # {}
            THEN /\ k \in DOMAIN data.JiBenXinXi
                 /\ data.JiBenXinXi[k] = PairedText(Last(Naming(k)))
            ELSE k \in DOMAIN data.JiBenXinXi =>
                    k = "XiangMuMingCheng" /\ ExpectedFromTitle(doc.title) # << >>

\* C4 amended: a paired label counts for the first of the five names, in the
\* order project name, location, sales area, licensed use, permit number,
\* that its text holds; the last label counting for a field gives its value;
\* a label holding none of the names adds nothing
C4_FirstNameLastWins ==
    Extracted =>
        \A k \in FieldKeys :
            IF FirstNaming(k) # {}
            THEN /\ k \in DOMAIN data.JiBenXinXi
                 /\ data.JiBenXinXi[k] = PairedText(Last(FirstNaming(k)))
            ELSE k \in DOMAIN data.JiBenXinXi =>
                    k = "XiangMuMingCheng" /\ ExpectedFromTitle(doc.title) # << >>

\* two paired labels count for one field with different contents, and one
\* of them holds the name of a second field
C4_Witness ==
    /\ Extracted
    /\ \E k \in FieldKeys : \E i, j \in FirstNaming(k) :
          /\ i < j
          /\ PairedText(i) # PairedText(j)
          /\ \E k2 \in FieldKeys \ {k} : LabelNames(i, k2)

\* C5: when a label gave the project name the title does not change it;
\* when none did, the title gives it exactly when the title holds the phrase
\* and something is left once the phrase is removed and the rest trimmed
C5_TitleFallback ==
    Extracted =>
        LET b == data.JiBenXinXi
            k == "XiangMuMingCheng"
        IN  IF Naming(k) # {}
            THEN k \in DOMAIN b /\ b[k] = PairedText(Last(Naming(k)))
            ELSE IF ExpectedFromTitle(doc.title) # << >>
                 THEN k \in DOMAIN b /\ b[k] = ExpectedFromTitle(doc.title)
                 ELSE k \notin DOMAIN b

\* no label gives the project name and the title gives "YangGuangHuaYuan"
C5_Witness ==
    /\ Extracted
    /\ doc.title = TitleYangGuang
    /\ doc.siblings # << >>
    /\ Naming("XiangMuMingCheng") = {}
    /\ data.JiBenXinXi["XiangMuMingCheng"] = << "YangGuangHuaYuan" >>

\* the hundredths the area cell of a row is to add
ExpectedArea(row) ==
    LET cells == SelectSeq(row, LAMBDA td : td.cls)
    IN  (CHOOSE a \in AreaCells : a.td = cells[2]).adds

RECURSIVE SumAreas(_)
SumAreas(rows) ==
    IF rows = << >> THEN 0 ELSE ExpectedArea(Head(rows)) + SumAreas(Tail(rows))

\* C6: no area value makes the extraction fail: a document that was read
\* and parsed gives a result, whose total area is the sum of the areas that
\* parse, the others adding 0
C6_AreaNeverFails ==
    /\ error # "ValueError"
    /\ pc = "main_branch" /\ error = "none" => Extracted
    /\ Extracted =>
          data.TongJiXinXi.ZongMianJi =
              FormatArea(SumAreas(SelectSeq(doc.table_rows, RowQualifies)))

\* "89.5平方米" and "abc" give a total of 89.50
C6_Witness ==
    /\ Extracted
    /\ Len(data.FangWuXiangQing) = 2
    /\ Get(data.FangWuXiangQing[1], "JianZhuMianJi", << >>)
          = << "8", "9", ".", "5" >> \o PingFangMi
    /\ Get(data.FangWuXiangQing[2], "JianZhuMianJi", << >>) = << "a", "b", "c" >>
    /\ data.TongJiXinXi.ZongMianJi = << "89", ".", "50" >> \o PingFangMi

Complete(d) ==
    /\ DOMAIN d = {"JiBenXinXi", "FangWuXiangQing", "TongJiXinXi"}
    /\ DOMAIN d.TongJiXinXi =
          {"ZongFangWuShu", "YiShouFangWuShu", "WeiShouFangWuShu",
           "DiYaFangWuShu", "ZongMianJi", "TiQuShiJian"}

\* C7: extract_house_sales_info never raises to main; when it has returned,
\* its value is None if an error occurred and a complete result if not
C7_CompleteOrNone ==
    /\ pc # "crashed"
    /\ pc = "main_branch" =>
          IF error = "none" THEN Extracted /\ Complete(data) ELSE IsNone(data)
    /\ Extracted => Complete(data)

\* reading the file failed and None was returned
C7_Witness ==
    /\ pc = "main_branch"
    /\ error = "UnicodeDecodeError"
    /\ IsNone(data)

\* C8: the run ends with status 1 exactly when the input file is missing or
\* the extraction failed, and with 0 otherwise, also when the write failed;
\* save_to_file is entered only with a result
C8_ExitCode ==
    /\ pc = "done" =>
          /\ exit_code \in {0, 1}
          /\ exit_code = 1 <=> (~input_exists \/ IsNone(data))
          /\ save_called /\ written = {} => exit_code = 0
    /\ save_called => Extracted

\* the write failed and the run ended with status 0
C8_Witness ==
    /\ pc = "done"
    /\ save_called
    /\ error = "OSError"
    /\ written = {}
    /\ exit_code = 0

\* the file each output argument is to give
ExpectedTarget(output) ==
    CASE output = << >> ->
            [path |-> << "page", "_XiaoShouXinXi", ".json" >>, format |-> "json"]
      [] output = << "out", ".json" >> ->
            [path |-> << "out", ".json" >>, format |-> "json"]
      [] output = << "report", ".txt" >> ->
            [path |-> << "report", ".txt" >>, format |-> "txt"]
      [] output = << "out" >> ->
            [path |-> << "out", ".json" >>, format |-> "json"]
      [] output = << "out", ".csv" >> ->
            [path |-> << "out", ".csv", ".json" >>, format |-> "json"]
      [] output = << "out", ".JSON" >> ->
            [path |-> << "out", ".JSON", ".json" >>, format |-> "json"]
      [] output = << "a", ".json", ".bak" >> ->
            [path |-> << "a", ".json", ".bak", ".json" >>, format |-> "json"]

\* C9: save_to_file opens exactly one file for writing, chosen by the
\* extension alone: the path itself as JSON for .json, the path itself as
\* text for .txt, the path with .json appended as JSON otherwise; no other
\* file is written, and that file is written unless the write fails
C9_OneFileByExtension ==
    /\ Len(opened) <= 1
    /\ written \subseteq {opened[i] : i \in 1..Len(opened)}
    /\ save_called /\ pc \in {"save_write", "save_close", "main_return", "done"} =>
          /\ Len(opened) = 1
          /\ opened[1] = ExpectedTarget(args.output)
    /\ save_called /\ pc \in {"main_return", "done"} /\ error = "none" =>
          written = {ExpectedTarget(args.output)}

\* a path with another extension was written as JSON with .json appended
C9_Witness ==
    /\ pc = "done"
    /\ args.output = << "out", ".csv" >>
    /\ written = {[path |-> << "out", ".csv", ".json" >>, format |-> "json"]}

\* C10: at most one handle is open at any moment, the input handle is closed
\* once the with block is left and so before the output handle is opened,
\* and no handle is open when the run ends
C10_OneHandle ==
    /\ Cardinality(handles) <= 1
    /\ "in" \in handles => pc \in {"extract_read", "extract_close"}
    /\ "out" \in handles => pc \in {"save_write", "save_close"}
    /\ pc \in {"done", "crashed"} => handles = {}

\* the input was read and closed and the output handle is open
C10_Witness ==
    /\ html_content = doc
    /\ handles = {"out"}

====
